---- MODULE Spec2Model ----
(***************************************************************************)
(* SessionManager (adapters/session_manager.py) and the lean-cli           *)
(* ResearchSession it constructs (adapters/research_session_lean_cli.py),  *)
(* as an asyncio program: every action is one run of a coroutine between   *)
(* two points where it really suspends (asyncio.to_thread, asyncio.sleep). *)
(* Coroutines without such a point (close, close_session, get_session,     *)
(* _cleanup_expired_sessions, _find_container) run as one action.          *)
(***************************************************************************)
EXTENDS Integers, Sequences, FiniteSets, TLC

\* ---------------------------------------------------------------- bounds
Ids == {"s1", "s2"}          \* caller-supplied session ids
MaxCap == 2                  \* max_sessions ranges over 1..MaxCap
MaxTimeout == 1              \* session_timeout ranges over 0..MaxTimeout
MaxTime == 1                 \* datetime.utcnow() ranges over 0..MaxTime
MaxObj == 2                  \* ResearchSession objects ever constructed
MaxCont == 2                 \* containers ever launched by lean research
MaxExec == 2                 \* execute() calls ever started
MaxExecObj == 1              \* objects constructed where execute() is studied

\* ------------------------------------------------------ program constants
DefaultPort == 8888
CodeSizeLimit == 50000
NumStrategies == 3
DefaultTimeout == 300

\* port argument of ResearchSession: the default and one other
Ports == {DefaultPort, DefaultPort + 1}
\* code payloads: their length is all the code under study looks at
CodeLens == {1, CodeSizeLimit + 1}
\* timeout argument of execute(): 0 stands for None (tool layer default)
Timeouts == {0, DefaultTimeout}
\* the newline character; a code payload is a sequence of characters
NL == "nl"
\* code payloads whose text is followed into the notebook
Codes == {<<>>, <<"a">>, <<"a", NL>>, <<"b">>}
\* the payload used where only the length of the code matters
ExecCodes == {<<"a">>}

None == 0

VARIABLES
    max_sessions,     \* SessionManager.max_sessions
    session_timeout,  \* SessionManager.session_timeout
    now,              \* datetime.utcnow()
    registry,         \* SessionManager._sessions: id -> object (None = absent)
    sess,             \* the ResearchSession objects, by object number
    conts,            \* the container runtime: containers ever launched
    call,             \* per object: the coroutine suspended on it
    result,           \* what the last finished call on a session gave
    mret,             \* what the last finished SessionManager call gave
    lastRet,          \* id -> object last returned by get_or_create_session
    nexec,            \* execute() calls started
    faults,           \* whether deleting a workspace can fail in this run
    running,          \* SessionManager._running
    task,             \* the _cleanup_loop tasks alive, oldest first, each
                      \* "sleeping" or "cancelled"; _cleanup_task is the last
                      \* one created
    stopping          \* 0, or while a stop() call waits for the cancelled task:
                      \* 1 + the number of session objects built before it began

\* the lifecycle fields of the manager
life == <<running, task, stopping>>

vars == <<max_sessions, session_timeout, now, registry, sess, conts, call,
          result, mret, lastRet, nexec, faults, running, task, stopping>>

\* ------------------------------------------------------------ the records
IdleCall ==
    [pc |-> "idle", caller |-> "none", codeLen |-> 0, tmo |-> 0, strat |-> 0,
     live |-> FALSE, execs |-> 0, launched |-> 0, cname |-> None,
     pending |-> "none", lastOut |-> "none", violation |-> FALSE,
     wasClosed |-> FALSE, fresh |-> FALSE, relocated |-> FALSE,
     sensitive |-> FALSE, nonzero |-> 0, code |-> <<>>, cont |-> None,
     nb |-> <<>>, hung |-> FALSE]

NoResult ==
    [op |-> "none", status |-> "none", timeout |-> FALSE, execs |-> 0,
     launched |-> 0, codeLen |-> 0, tried |-> 0, lastOut |-> "none",
     wasClosed |-> FALSE, violation |-> FALSE, sizeError |-> FALSE,
     fresh |-> FALSE, relocated |-> FALSE, sensitive |-> FALSE,
     nonzero |-> 0, code |-> <<>>]

NoRet == [op |-> "none", id |-> "none", obj |-> None, out |-> "none"]

\* ResearchSession.__init__
NewSession(id, port, t) ==
    [session_id |-> id, port |-> port, created_at |-> t, last_used |-> t,
     temp_dir |-> TRUE, container |-> None, initialized |-> FALSE,
     closed |-> FALSE, handed |-> FALSE, unparsed |-> FALSE]

Objs == DOMAIN sess
Registered == {id \in Ids : registry[id] # None}
RegisteredObjs == {registry[id] : id \in Registered}

\* SessionManager.list_sessions: one entry per registered session
list_sessions ==
    {[session_id |-> sess[o].session_id, created_at |-> sess[o].created_at,
      last_used |-> sess[o].last_used,
      initialized |-> sess[o].initialized, port |-> sess[o].port] :
        o \in RegisteredObjs}

\* faulty variant: the idle test made non-strict
is_expired_non_strict(s, t, max_idle_time) == t - s.last_used >= max_idle_time

\* faulty variant: the idle test is late by one clock unit
is_expired_late(s, t, max_idle_time) == t - s.last_used > max_idle_time + 1

\* ResearchSession.is_expired
is_expired(s, t, max_idle_time) == t - s.last_used > max_idle_time

\* --------------------------------------------------------------- close()
\* faulty variant of CloseSess below: _initialized is cleared inside the
\* try, so a failing workspace deletion skips it
\* ResearchSession.close for every object of `closing` in turn: stop the
\* container (kill as fallback; stopOk[o] is whether either worked), drop
\* the reference, clean the temp dir (cleanOk[o]), always _initialized=False
CloseSessAbort(S, closing, cleanOk) ==
    [o \in DOMAIN S |->
        IF o \in closing
        THEN [S[o] EXCEPT !.container = None,
                          !.temp_dir = IF cleanOk[o] THEN FALSE ELSE @,
                          !.initialized = IF cleanOk[o] THEN FALSE ELSE @,
                          !.closed = TRUE]
        ELSE S[o]]

CloseSess(S, closing, cleanOk) ==
    [o \in DOMAIN S |->
        IF o \in closing
        THEN [S[o] EXCEPT !.container = None,
                          !.temp_dir = IF cleanOk[o] THEN FALSE ELSE @,
                          !.initialized = FALSE,
                          !.closed = TRUE]
        ELSE S[o]]

CloseConts(S, C, closing, stopOk) ==
    [c \in DOMAIN C |->
        IF \E o \in closing : S[o].container = c /\ stopOk[o]
        THEN [C[c] EXCEPT !.status = "stopped"]
        ELSE C[c]]

\* TemporaryDirectory.cleanup() returns (TRUE) or raises (FALSE)
CleanOutcomes == IF faults THEN BOOLEAN ELSE {TRUE}

\* ---------------------------------------------------- SessionManager ops
\* _cleanup_expired_sessions: the expired ids are collected first, then
\* close_session runs for each (pop, close)
ExpiredIds(R, S, t) ==
    {id \in Ids : R[id] # None /\ is_expired(S[R[id]], t, session_timeout)}

\* faulty variant: the capacity test made strict
AtCapacityStrict(R) == Cardinality({id \in Ids : R[id] # None}) > max_sessions

\* the session limit test of get_or_create_session (lines 97 and 101)
AtCapacity(R) == Cardinality({id \in Ids : R[id] # None}) >= max_sessions

Ret(op, id, o, out) == [op |-> op, id |-> id, obj |-> o, out |-> out]

\* get_or_create_session, the id is registered (lines 89-94)
GocHit(id) ==
    /\ registry[id] # None
    /\ sess' = [sess EXCEPT ![registry[id]].last_used = now,
                            ![registry[id]].handed = TRUE]
    /\ mret' = Ret("get_or_create", id, registry[id], "hit")
    /\ lastRet' = [lastRet EXCEPT ![id] = registry[id]]
    /\ UNCHANGED <<life, faults, max_sessions, session_timeout, now, registry, conts, call,
                   result, nexec>>

\* get_or_create_session, the id is absent (lines 96-110): the capacity
\* check with its sweep, then the constructor and initialize() up to its
\* first suspension (_check_lean_cli)
GocMiss(id, port) ==
    /\ registry[id] = None
    /\ LET full == AtCapacity(registry)
           exp == IF full THEN ExpiredIds(registry, sess, now) ELSE {}
           closing == {registry[i] : i \in exp}
           R1 == [i \in Ids |-> IF i \in exp THEN None ELSE registry[i]]
       IN \E stopOk \in [closing -> BOOLEAN], cleanOk \in [closing -> CleanOutcomes] :
            LET S1 == CloseSess(sess, closing, cleanOk)
                C1 == CloseConts(sess, conts, closing, stopOk)
                L1 == [i \in Ids |-> IF i \in exp THEN None ELSE lastRet[i]]
            IN /\ registry' = R1
               /\ conts' = C1
               /\ lastRet' = L1
               /\ IF AtCapacity(R1)
                  THEN /\ sess' = S1
                       /\ call' = call
                       /\ result' = result
                       /\ mret' = Ret("get_or_create", id, None, "capacity")
                  ELSE /\ Len(sess) < MaxObj
                       /\ sess' = Append(S1, NewSession(id, port, now))
                       /\ call' = Append(call, [IdleCall EXCEPT !.pc = "check",
                                                               !.caller = "mgr"])
                       /\ result' = result
                       /\ mret' = mret
    /\ UNCHANGED <<life, faults, max_sessions, session_timeout, now, nexec>>

get_or_create_session(id, port) == GocHit(id) \/ GocMiss(id, port)

\* faulty variant: the lookup resets last_used to the epoch
get_session_epoch(id) ==
    /\ IF registry[id] # None
       THEN sess' = [sess EXCEPT ![registry[id]].last_used = 0,
                                 ![registry[id]].handed = TRUE]
       ELSE sess' = sess
    /\ mret' = Ret("get_session", id, registry[id], "ok")
    /\ UNCHANGED <<life, faults, max_sessions, session_timeout, now, registry, conts, call,
                   result, lastRet, nexec>>

\* get_session (lines 120-133)
get_session(id) ==
    /\ IF registry[id] # None
       THEN sess' = [sess EXCEPT ![registry[id]].last_used = now,
                                 ![registry[id]].handed = TRUE]
       ELSE sess' = sess
    /\ mret' = Ret("get_session", id, registry[id], "ok")
    /\ UNCHANGED <<life, faults, max_sessions, session_timeout, now, registry, conts, call,
                   result, lastRet, nexec>>

\* faulty variant: the session is looked up instead of popped
close_session_no_pop(id) ==
    /\ LET closing == IF registry[id] # None THEN {registry[id]} ELSE {}
       IN \E stopOk \in [closing -> BOOLEAN], cleanOk \in [closing -> CleanOutcomes] :
            /\ sess' = CloseSess(sess, closing, cleanOk)
            /\ conts' = CloseConts(sess, conts, closing, stopOk)
    /\ mret' = Ret("close_session", id, registry[id],
                   IF registry[id] # None THEN "true" ELSE "false")
    /\ UNCHANGED <<life, faults, max_sessions, session_timeout, now, registry, lastRet,
                   call, result, nexec>>

\* close_session (lines 135-150): pop, then close() if something was popped
close_session(id) ==
    /\ LET closing == IF registry[id] # None THEN {registry[id]} ELSE {}
       IN \E stopOk \in [closing -> BOOLEAN], cleanOk \in [closing -> CleanOutcomes] :
            /\ sess' = CloseSess(sess, closing, cleanOk)
            /\ conts' = CloseConts(sess, conts, closing, stopOk)
    /\ registry' = [registry EXCEPT ![id] = None]
    /\ lastRet' = [lastRet EXCEPT ![id] = None]
    /\ mret' = Ret("close_session", id, registry[id],
                   IF registry[id] # None THEN "true" ELSE "false")
    /\ UNCHANGED <<life, faults, max_sessions, session_timeout, now, call, result, nexec>>

\* variant: the sweep closes the expired sessions and leaves them registered
cleanup_expired_sessions_keep ==
    /\ LET exp == ExpiredIds(registry, sess, now)
           closing == {registry[i] : i \in exp}
       IN /\ \E stopOk \in [closing -> BOOLEAN], cleanOk \in [closing -> CleanOutcomes] :
               /\ sess' = CloseSess(sess, closing, cleanOk)
               /\ conts' = CloseConts(sess, conts, closing, stopOk)
          /\ registry' = registry
          /\ lastRet' = [i \in Ids |-> IF i \in exp THEN None ELSE lastRet[i]]
          /\ mret' = Ret("sweep", "none", None, IF exp = {} THEN "none" ELSE "some")
    /\ UNCHANGED <<life, faults, max_sessions, session_timeout, now, call, result, nexec>>

\* _cleanup_expired_sessions (lines 187-203), run by _cleanup_loop or called
\* on its own
cleanup_expired_sessions ==
    /\ LET exp == ExpiredIds(registry, sess, now)
           closing == {registry[i] : i \in exp}
       IN /\ \E stopOk \in [closing -> BOOLEAN], cleanOk \in [closing -> CleanOutcomes] :
               /\ sess' = CloseSess(sess, closing, cleanOk)
               /\ conts' = CloseConts(sess, conts, closing, stopOk)
          /\ registry' = [i \in Ids |-> IF i \in exp THEN None ELSE registry[i]]
          /\ lastRet' = [i \in Ids |-> IF i \in exp THEN None ELSE lastRet[i]]
          /\ mret' = Ret("sweep", "none", None, IF exp = {} THEN "none" ELSE "some")
    /\ UNCHANGED <<life, faults, max_sessions, session_timeout, now, call, result, nexec>>

\* --------------------------------------------------- the container runtime
PortBusy(C, port) ==
    \E c \in DOMAIN C : C[c].port = port /\ C[c].status # "stopped"

Running(C, c) == c # None /\ C[c].status = "running"

\* faulty variant: no container ever matches
find_container_none(S, C, o) == {None}

\* client.containers.list() filtered as _find_container does (lines 153-179):
\* a running container whose 8888/tcp binding is the session's port
find_container(S, C, o) ==
    LET m == {c \in DOMAIN C : C[c].status = "running" /\ C[c].port = S[o].port}
    IN IF m = {} THEN {None} ELSE m

\* the location part of initialize (lines 356-426): (a) the name taken from
\* the launcher's output, when it carries one, (b) and (c) a running
\* container bound to the session's port
Locate(S, C, o, cname) ==
    LET byName == IF cname # None THEN {cname} ELSE {}
        m == {c \in DOMAIN C : C[c].status = "running" /\ C[c].port = S[o].port}
    IN IF byName # {} THEN byName
       ELSE IF m = {} THEN {None} ELSE m

\* a detached container comes up; a running container exits by itself
ContainerUp(c) ==
    /\ conts[c].status = "starting"
    /\ conts' = [conts EXCEPT ![c].status = "running"]
    /\ UNCHANGED <<life, faults, max_sessions, session_timeout, now, registry, sess, call,
                   result, mret, lastRet, nexec>>

ContainerDie(c) ==
    /\ conts[c].status = "running"
    /\ conts' = [conts EXCEPT ![c].status = "stopped"]
    /\ UNCHANGED <<life, faults, max_sessions, session_timeout, now, registry, sess, call,
                   result, mret, lastRet, nexec>>

Tick ==
    /\ now < MaxTime
    /\ now' = now + 1
    /\ UNCHANGED <<life, faults, max_sessions, session_timeout, registry, sess, conts, call,
                   result, mret, lastRet, nexec>>

\* ------------------------------------------- the notebook research.ipynb
\* the notebook written by _create_research_notebook (lines 181-284): a
\* markdown cell and a code cell
CreatedCells ==
    <<[cell_type |-> "markdown", source |-> <<<<"created">>>>],
      [cell_type |-> "code", source |-> <<<<"created">>>>]>>

\* the notebook execute falls back to when the read fails (lines 485-529)
DefaultCells ==
    <<[cell_type |-> "markdown", source |-> <<<<"default">>>>],
      [cell_type |-> "code", source |-> <<<<"default">>>>]>>

\* the file /LeanCLI/research.ipynb of a container: a parsable notebook
\* with its cells, a file json.loads rejects, or no file
Notebook(cells) == [state |-> "ok", cells |-> cells]
Unparsable == [state |-> "corrupt", cells |-> <<>>]
Absent == [state |-> "absent", cells |-> <<>>]

\* str.split('\n'): the pieces between the newlines, at least one piece
RECURSIVE split(_)
split(s) ==
    IF \A i \in 1..Len(s) : s[i] # NL
    THEN <<s>>
    ELSE LET k == CHOOSE i \in 1..Len(s) :
                     s[i] = NL /\ \A j \in 1..(i - 1) : s[j] # NL
         IN <<SubSeq(s, 1, k - 1)>> \o split(SubSeq(s, k + 1, Len(s)))

\* the source list of the new cell (lines 545-554): every line but the last
\* with its newline; the last line, when not empty, with a newline too; the
\* one empty string for code without any line
source_of(code) ==
    LET lines == split(code)
        n == Len(lines)
        head == [i \in 1..(n - 1) |-> Append(lines[i], NL)]
    IN IF lines[n] # <<>>
       THEN Append(head, Append(lines[n], NL))
       ELSE IF head = <<>> THEN <<<<>>>> ELSE head

\* ''.join(source), as the strategies rebuild the code of the last cell
\* (lines 609 and 732)
RECURSIVE join(_)
join(src) == IF src = <<>> THEN <<>> ELSE Head(src) \o join(Tail(src))

\* new_cell (lines 556-562)
new_cell(code) == [cell_type |-> "code", source |-> source_of(code)]

\* faulty variant: the new cell takes the place of the last one
append_cell_over(cells, code) ==
    Append(SubSeq(cells, 1, Len(cells) - 1), new_cell(code))

\* notebook_content["cells"].append(new_cell) (line 563)
append_cell(cells, code) == Append(cells, new_cell(code))

\* `cat research.ipynb` on a container: exit status 0 when the file is there
cat(nb) == IF nb.state = "absent" THEN "exitN" ELSE "exit0"

\* the notebook is changed from outside the session, by the Jupyter server
\* of the container or on the host: removed, or left unparsable
NotebookEdit(c) ==
    /\ conts[c].status = "running"
    /\ \E nb \in {Absent, Unparsable} :
         /\ conts[c].nb # nb
         /\ conts' = [conts EXCEPT ![c].nb = nb]
    /\ UNCHANGED <<life, faults, max_sessions, session_timeout, now, registry, sess, call,
                   result, mret, lastRet, nexec>>

\* ------------------------------------------------ ResearchSession.execute
\* a call on object o ends: the coroutine is gone, its outcome is recorded
Finish(o, S, cl, op, status) ==
    /\ sess' = S
    /\ call' = [call EXCEPT ![o] = IdleCall]
    /\ result' =
                    [op |-> op, status |-> status, timeout |-> FALSE,
                     execs |-> cl.execs, launched |-> cl.launched,
                     codeLen |-> cl.codeLen, tried |-> cl.strat,
                     lastOut |-> cl.lastOut, wasClosed |-> cl.wasClosed,
                     violation |-> cl.violation, sizeError |-> FALSE,
                     fresh |-> cl.fresh, relocated |-> cl.relocated,
                     sensitive |-> cl.sensitive, nonzero |-> cl.nonzero,
                     code |-> cl.code]

\* self.container.exec_run(...) handed to asyncio.to_thread inside the outer
\* try of execute (lines 470-876): with no container the attribute access
\* raises and the outer except returns an error result
Issue(o, S, cl, pc) ==
    IF S[o].container = None
    THEN Finish(o, S, cl, "execute", "error")
    ELSE /\ sess' = S
         /\ call' = [call EXCEPT ![o] =
                       [cl EXCEPT !.pc = pc,
                                  !.cont = S[o].container,
                                  !.live = Running(conts, S[o].container),
                                  !.execs = @ + 1]]
         /\ result' = result

\* the final return of execute (lines 859-867): status "success" with a note
Fallback(o, S, cl) == Finish(o, S, cl, "execute", "success")

\* faulty variant: every turn of the loop runs the last strategy
IssueStrategy_last(o, S, cl, i) ==
    IF S[o].container = None
    THEN Fallback(o, S, [cl EXCEPT !.strat = NumStrategies, !.lastOut = "exc"])
    ELSE /\ sess' = S
         /\ call' = [call EXCEPT ![o] =
                       [cl EXCEPT !.pc = "strategy", !.strat = NumStrategies,
                                  !.live = Running(conts, S[o].container),
                                  !.execs = @ + 1]]
         /\ result' = result

\* one turn of the strategy loop (lines 750-783) for strategy i: with no
\* container the attribute access raises inside the loop's try, and the
\* loop goes on to the next strategy at once
IssueStrategy(o, S, cl, i) ==
    IF S[o].container = None
    THEN Fallback(o, S, [cl EXCEPT !.strat = NumStrategies, !.lastOut = "exc"])
    ELSE /\ sess' = S
         /\ call' = [call EXCEPT ![o] =
                       [cl EXCEPT !.pc = "strategy", !.strat = i,
                                  !.live = Running(conts, S[o].container),
                                  !.execs = @ + 1]]
         /\ result' = result

\* what an exec_run handed to a thread can give back: its exit status, or
\* an exception; on a container that was not running only the exception;
\* nothing at all while the command does not complete
Outcomes(cl) ==
    IF cl.hung THEN {}
    ELSE IF cl.live THEN {"exit0", "exitN", "exc"} ELSE {"exc"}

\* the command a call waits for never completes (exec_run does not return)
CommandHangs(o) ==
    /\ call[o].pc \in {"read", "write", "tools", "strategy", "readexec", "rm"}
    /\ call[o].live
    /\ ~call[o].hung
    /\ call' = [call EXCEPT ![o].hung = TRUE]
    /\ UNCHANGED <<life, faults, max_sessions, session_timeout, now, registry, sess, conts,
                   result, mret, lastRet, nexec>>

\* execute after its initialize() part (lines 453-480)
ExecuteBody(o, S, cl) ==
    IF S[o].container # None
    THEN Issue(o, [S EXCEPT ![o].last_used = now], cl, "read")
    ELSE \* _find_container: containers.list() may raise, outside any try
         \/ Finish(o, S, cl, "execute", "raised")
         \/ \E c \in find_container(S, conts, o) :
              IF c = None
              THEN Finish(o, S, cl, "execute", "error")
              ELSE Issue(o, [S EXCEPT ![o].container = c, ![o].last_used = now],
                         [cl EXCEPT !.relocated = TRUE], "read")

\* ------------------------------------------- ResearchSession.initialize
\* initialize fails (lines 440-443): close(), then the error is raised to
\* the caller: get_or_create_session wraps it (lines 116-118), execute lets
\* it through (line 451)
InitFail(o) ==
    /\ \E cleanOk \in [{o} -> CleanOutcomes] :
         LET S1 == CloseSess(sess, {o}, cleanOk)
             cl == call[o]
         IN CASE cl.caller = "mgr" ->
                   /\ sess' = S1
                   /\ call' = [call EXCEPT ![o] = IdleCall]
                   /\ result' = result
                   /\ mret' = Ret("get_or_create", sess[o].session_id, None,
                                  "provision_failed")
              [] cl.caller = "exec" ->
                   /\ Finish(o, S1, cl, "execute", "raised")
                   /\ mret' = mret
              [] OTHER ->
                   /\ Finish(o, S1, cl, "initialize", "raised")
                   /\ mret' = mret
    /\ conts' = CloseConts(sess, conts, {o}, [x \in {o} |-> TRUE])
    /\ UNCHANGED <<life, faults, max_sessions, session_timeout, now, registry, lastRet, nexec>>

\* _check_lean_cli and _init_lean_project return (lines 293-304)
InitCheck(o) ==
    /\ call[o].pc = "check"
    /\ \/ InitFail(o)
       \/ /\ call' = [call EXCEPT ![o].pc = "launch"]
          /\ UNCHANGED <<life, faults, max_sessions, session_timeout, now, registry, sess,
                         conts, result, mret, lastRet, nexec>>

\* lean research --detach returns (lines 321-354)
InitLaunch(o) ==
    /\ call[o].pc = "launch"
    /\ \/ InitFail(o)
       \/ /\ Len(conts) < MaxCont
          /\ ~PortBusy(conts, sess[o].port)
          /\ \E st \in {"starting", "running"} :
               /\ conts' = Append(conts, [port |-> sess[o].port, status |-> st,
                                           nb |-> Notebook(CreatedCells)])
               /\ call' = [call EXCEPT ![o].pc = "sleep",
                                       ![o].launched = @ + 1,
                                       ![o].cname = Len(conts) + 1]
          /\ UNCHANGED <<life, faults, max_sessions, session_timeout, now, registry, sess,
                         result, mret, lastRet, nexec>>

\* asyncio.sleep(2) returns, so the clock has moved on since every earlier
\* reading of it, last_used among them: the container is looked for, _initialized is
\* set (lines 356-438), and the caller goes on without suspending:
\* get_or_create_session registers and returns (lines 112-114), execute goes
\* on to line 453
InitSleep(o) ==
    /\ call[o].pc = "sleep"
    /\ now > sess[o].last_used
    /\ \/ InitFail(o)
       \/ /\ UNCHANGED <<life, faults, max_sessions, session_timeout, now, conts, nexec>>
          /\ \E named \in BOOLEAN :
             \E c \in Locate(sess, conts, o, IF named THEN call[o].cname ELSE None) :
               LET S1 == [sess EXCEPT ![o].container = c, ![o].initialized = TRUE]
                   cl == [call[o] EXCEPT !.cname = None]
                   id == sess[o].session_id
               IN CASE cl.caller = "mgr" ->
                         /\ sess' = [S1 EXCEPT ![o].handed = TRUE]
                         /\ registry' = [registry EXCEPT ![id] = o]
                         /\ lastRet' = [lastRet EXCEPT ![id] = o]
                         /\ mret' = Ret("get_or_create", id, o, "created")
                         /\ call' = [call EXCEPT ![o] = IdleCall]
                         /\ result' = result
                    [] cl.caller = "exec" ->
                         /\ ExecuteBody(o, S1, cl)
                         /\ UNCHANGED <<registry, lastRet, mret>>
                    [] OTHER ->
                         /\ Finish(o, S1, cl, "initialize", "success")
                         /\ UNCHANGED <<registry, lastRet, mret>>

\* ResearchSession(session_id, port=...) built by a user of the adapters
\* package, without the manager: the object is the caller's from the start
construct(id, port) ==
    /\ Len(sess) < MaxExecObj
    /\ sess' = Append(sess, [NewSession(id, port, now) EXCEPT !.handed = TRUE])
    /\ call' = Append(call, IdleCall)
    /\ UNCHANGED <<life, faults, max_sessions, session_timeout, now, registry, conts,
                   result, mret, lastRet, nexec>>

\* faulty variant: initialize without the test of _initialized
initialize_again(o) ==
    /\ sess[o].handed
    /\ call[o].pc = "idle"
    /\ call' = [call EXCEPT ![o] = [IdleCall EXCEPT !.pc = "check",
                                                    !.caller = "init",
                                                    !.wasClosed = sess[o].closed]]
    /\ UNCHANGED <<sess, result>>
    /\ UNCHANGED <<life, faults, max_sessions, session_timeout, now, registry, conts, mret,
                   lastRet, nexec>>

\* initialize() called by the holder of a session (tools/quantbook_tools.py
\* line 82): it returns at once on an initialized session (lines 288-289)
initialize(o) ==
    /\ sess[o].handed
    /\ call[o].pc = "idle"
    /\ IF sess[o].initialized
       THEN Finish(o, sess, IdleCall, "initialize", "success")
       ELSE /\ call' = [call EXCEPT ![o] = [IdleCall EXCEPT !.pc = "check",
                                                           !.caller = "init",
                                                           !.wasClosed = sess[o].closed]]
            /\ UNCHANGED <<sess, result>>
    /\ UNCHANGED <<life, faults, max_sessions, session_timeout, now, registry, conts, mret,
                   lastRet, nexec>>

\* faulty variant: execute does not initialize an uninitialized session
execute_no_init(o, code, codeLen, sensitive, tmo) ==
    /\ sess[o].handed
    /\ call[o].pc = "idle"
    /\ nexec < MaxExec
    /\ nexec' = nexec + 1
    /\ LET cl == [IdleCall EXCEPT !.caller = "exec", !.codeLen = codeLen,
                                  !.code = code,
                                  !.sensitive = sensitive,
                                  !.tmo = tmo, !.wasClosed = sess[o].closed,
                                  !.fresh = ~sess[o].initialized /\ ~sess[o].closed]
       IN ExecuteBody(o, sess, cl)
    /\ UNCHANGED <<life, faults, max_sessions, session_timeout, now, registry, conts, mret,
                   lastRet>>

\* execute(code, timeout) called by the holder of a session (lines 445-451)
execute(o, code, codeLen, sensitive, tmo) ==
    /\ sess[o].handed
    /\ call[o].pc = "idle"
    /\ nexec < MaxExec
    /\ nexec' = nexec + 1
    /\ LET cl == [IdleCall EXCEPT !.caller = "exec", !.codeLen = codeLen,
                                  !.code = code,
                                  !.sensitive = sensitive,
                                  !.tmo = tmo, !.wasClosed = sess[o].closed,
                                  !.fresh = ~sess[o].initialized /\ ~sess[o].closed]
       IN IF sess[o].initialized
          THEN ExecuteBody(o, sess, cl)
          ELSE /\ call' = [call EXCEPT ![o] = [cl EXCEPT !.pc = "check"]]
               /\ UNCHANGED <<sess, result>>
    /\ UNCHANGED <<life, faults, max_sessions, session_timeout, now, registry, conts, mret,
                   lastRet>>

\* faulty variant: an unparsable file is taken for a missing one
ExecRead_lenient(o) ==
    /\ call[o].pc = "read"
    /\ LET cl == call[o]
           nb == conts[cl.cont].nb
       IN \E out \in Outcomes(cl) \cap {"exc", cat(nb)} :
            CASE out = "exc" ->
                    Finish(o, sess, cl, "execute", "error")
              [] out = "exitN" \/ nb.state = "corrupt" ->
                    Issue(o, sess, [cl EXCEPT !.nb = append_cell(DefaultCells, cl.code)],
                          "write")
              [] OTHER ->
                    Issue(o, sess, [cl EXCEPT !.nb = append_cell(nb.cells, cl.code)],
                          "write")
    /\ UNCHANGED <<life, faults, max_sessions, session_timeout, now, registry, conts, mret,
                   lastRet, nexec>>

\* cat research.ipynb returns (lines 475-563): no file gives the default
\* notebook, an unparsable file an error result; the new cell is appended to
\* the cells read and the write of the whole document is issued
ExecRead(o) ==
    /\ call[o].pc = "read"
    /\ LET cl == call[o]
           nb == conts[cl.cont].nb
       IN \E out \in Outcomes(cl) \cap {"exc", cat(nb)} :
            CASE out = "exc" ->
                    Finish(o, sess, cl, "execute", "error")
              [] out = "exitN" ->
                    Issue(o, sess, [cl EXCEPT !.nb = append_cell(DefaultCells, cl.code)],
                          "write")
              [] out = "exit0" /\ nb.state = "corrupt" ->
                    Finish(o, [sess EXCEPT ![o].unparsed = TRUE],
                           [cl EXCEPT !.lastOut = "unparsable"], "execute", "error")
              [] OTHER ->
                    Issue(o, sess, [cl EXCEPT !.nb = append_cell(nb.cells, cl.code)],
                          "write")
    /\ UNCHANGED <<life, faults, max_sessions, session_timeout, now, registry, conts, mret,
                   lastRet, nexec>>

\* the write returns (lines 566-581): the file holds the document; a write
\* that failed left the file as it was or cut short; the tool check is issued
ExecWrite(o) ==
    /\ call[o].pc = "write"
    /\ LET cl == call[o]
           c == cl.cont
       IN \E out \in Outcomes(cl) :
            CASE out = "exit0" ->
                    /\ conts' = [conts EXCEPT ![c].nb = Notebook(cl.nb)]
                    /\ Issue(o, sess, [cl EXCEPT !.nb = <<>>], "tools")
              [] out = "exitN" ->
                    /\ \E nb \in {conts[c].nb, Unparsable} :
                          conts' = [conts EXCEPT ![c].nb = nb]
                    /\ Finish(o, sess, cl, "execute", "error")
              [] OTHER ->
                    /\ conts' = conts
                    /\ Finish(o, sess, cl, "execute", "error")
    /\ UNCHANGED <<life, faults, max_sessions, session_timeout, now, registry, mret,
                   lastRet, nexec>>

\* the tool check returns (lines 593-594); the first strategy is issued
ExecTools(o) ==
    /\ call[o].pc = "tools"
    /\ \E out \in Outcomes(call[o]) :
         IF out = "exc"
         THEN Finish(o, sess, call[o], "execute", "error")
         ELSE IssueStrategy(o, sess, call[o], 1)
    /\ UNCHANGED <<life, faults, max_sessions, session_timeout, now, registry, conts, mret,
                   lastRet, nexec>>

\* strategy i returns, raises, or its wait times out (lines 754-783)
StrategyOutcomes(cl) ==
    Outcomes(cl) \cup (IF cl.tmo # None THEN {"timeout"} ELSE {})

ExecStrategy(o) ==
    /\ call[o].pc = "strategy"
    /\ \E out \in StrategyOutcomes(call[o]) :
         LET cl == [call[o] EXCEPT !.lastOut = out,
                                   !.nonzero = IF out = "exitN" THEN @ + 1 ELSE @]
             i == cl.strat
         IN IF out = "exit0"
            THEN IF i < NumStrategies
                 THEN Finish(o, sess, cl, "execute", "success")
                 ELSE \* nbconvert: the executed notebook is read (lines 797-803)
                      IF sess[o].container = None
                      THEN Fallback(o, sess, cl)
                      ELSE /\ call' = [call EXCEPT ![o] =
                                  [cl EXCEPT !.pc = "readexec",
                                             !.live = Running(conts, sess[o].container),
                                             !.execs = @ + 1]]
                           /\ UNCHANGED <<sess, result>>
            ELSE IF i < NumStrategies
                 THEN IssueStrategy(o, sess, cl, i + 1)
                 ELSE Fallback(o, sess, cl)
    /\ UNCHANGED <<life, faults, max_sessions, session_timeout, now, registry, conts, mret,
                   lastRet, nexec>>

\* the executed notebook was read (lines 805-857): its last cell holds an
\* error output or not; the rm is issued; anything else falls through
ExecReadExecuted(o) ==
    /\ call[o].pc = "readexec"
    /\ \E out \in Outcomes(call[o]), cellError \in BOOLEAN :
         IF out = "exit0" /\ sess[o].container # None
         THEN /\ call' = [call EXCEPT ![o].pc = "rm",
                                      ![o].pending = IF cellError THEN "error"
                                                     ELSE "success",
                                      ![o].live = Running(conts, sess[o].container),
                                      ![o].execs = @ + 1]
              /\ UNCHANGED <<sess, result>>
         ELSE Fallback(o, sess, call[o])
    /\ UNCHANGED <<life, faults, max_sessions, session_timeout, now, registry, conts, mret,
                   lastRet, nexec>>

\* rm -f research_executed.ipynb returns (lines 828-853)
ExecRm(o) ==
    /\ call[o].pc = "rm"
    /\ \E out \in Outcomes(call[o]) :
         IF out = "exc"
         THEN Fallback(o, sess, call[o])
         ELSE Finish(o, sess, call[o], "execute", call[o].pending)
    /\ UNCHANGED <<life, faults, max_sessions, session_timeout, now, registry, conts, mret,
                   lastRet, nexec>>

Init ==
    /\ max_sessions \in 1..MaxCap
    /\ session_timeout \in 0..MaxTimeout
    /\ now = 0
    /\ registry = [id \in Ids |-> None]
    /\ sess = <<>>
    /\ conts = <<>>
    /\ call = <<>>
    /\ result = NoResult
    /\ mret = NoRet
    /\ lastRet = [id \in Ids |-> None]
    /\ nexec = 0
    /\ faults \in BOOLEAN
    /\ running = FALSE
    /\ task = <<>>
    /\ stopping = 0

\* calls on the SessionManager, the initialize() they start, the runtime
MgrNext ==
    \/ \E id \in Ids, port \in Ports : get_or_create_session(id, port)
    \/ \E id \in Ids : get_session(id)
    \/ \E id \in Ids : close_session(id)
    \/ cleanup_expired_sessions
    \/ \E o \in Objs : InitCheck(o)
    \/ \E o \in Objs : InitLaunch(o)
    \/ \E o \in Objs : InitSleep(o)
    \/ \E c \in DOMAIN conts : ContainerUp(c)
    \/ Tick

\* calls on the sessions the manager handed out
SessionNext ==
    \/ \E c \in DOMAIN conts : ContainerDie(c)
    \/ \E o \in Objs : initialize(o)
    \/ \E o \in Objs, code \in ExecCodes, codeLen \in CodeLens, sensitive \in BOOLEAN,
          tmo \in Timeouts :
          /\ sensitive => codeLen <= CodeSizeLimit
          /\ execute(o, code, codeLen, sensitive, tmo)
    \/ \E o \in Objs : ExecRead(o)
    \/ \E o \in Objs : ExecWrite(o)
    \/ \E o \in Objs : ExecTools(o)
    \/ \E o \in Objs : ExecStrategy(o)
    \/ \E o \in Objs : ExecReadExecuted(o)
    \/ \E o \in Objs : ExecRm(o)

Next == MgrNext

\* the SessionManager under concurrent callers
Spec == Init /\ [][Next]_vars

\* one caller at a time per session: a single id, whose sessions are
\* executed on, closed and created again
ExecIds == {"s1"}

InitExec ==
    /\ max_sessions = 1
    /\ session_timeout = 0
    /\ now = 0
    /\ registry = [id \in Ids |-> None]
    /\ sess = <<>>
    /\ conts = <<>>
    /\ call = <<>>
    /\ result = NoResult
    /\ mret = NoRet
    /\ lastRet = [id \in Ids |-> None]
    /\ nexec = 0
    /\ faults = FALSE
    /\ running = FALSE
    /\ task = <<>>
    /\ stopping = 0

NextExec ==
    \/ \E id \in ExecIds : /\ (registry[id] = None => Len(sess) < MaxExecObj)
                           /\ get_or_create_session(id, DefaultPort)
    \/ \E id \in ExecIds : construct(id, DefaultPort)
    \/ \E id \in ExecIds : get_session(id)
    \/ \E id \in ExecIds : close_session(id)
    \/ cleanup_expired_sessions
    \/ \E o \in Objs : InitCheck(o)
    \/ \E o \in Objs : InitLaunch(o)
    \/ \E o \in Objs : InitSleep(o)
    \/ \E c \in DOMAIN conts : ContainerUp(c)
    \/ Tick
    \/ SessionNext

SpecExec == InitExec /\ [][NextExec]_vars

\* one session and its notebook: execute() calls with payloads whose text
\* is followed, while the notebook file can be changed from outside
NextLog ==
    \/ \E id \in ExecIds : construct(id, DefaultPort)
    \/ \E o \in Objs, code \in Codes : execute(o, code, 1, FALSE, DefaultTimeout)
    \/ \E o \in Objs : InitCheck(o)
    \/ \E o \in Objs : InitLaunch(o)
    \/ \E o \in Objs : InitSleep(o)
    \/ \E c \in DOMAIN conts : ContainerUp(c)
    \/ \E c \in DOMAIN conts : ContainerDie(c)
    \/ \E c \in DOMAIN conts : NotebookEdit(c)
    \/ Tick
    \/ \E o \in Objs : ExecRead(o)
    \/ \E o \in Objs : ExecWrite(o)
    \/ \E o \in Objs : ExecTools(o)
    \/ \E o \in Objs : ExecStrategy(o)
    \/ \E o \in Objs : ExecReadExecuted(o)
    \/ \E o \in Objs : ExecRm(o)

SpecLog == InitExec /\ [][NextLog]_vars

\* the steps of the calls in flight: each is the return of what the call
\* awaits
CallStep ==
    \E o \in Objs :
        \/ InitCheck(o)
        \/ InitLaunch(o)
        \/ InitSleep(o)
        \/ ExecRead(o)
        \/ ExecWrite(o)
        \/ ExecTools(o)
        \/ ExecStrategy(o)
        \/ ExecReadExecuted(o)
        \/ ExecRm(o)

\* one session whose sandbox commands may never complete
NextWait ==
    \/ \E id \in ExecIds : now < MaxTime /\ construct(id, DefaultPort)
    \/ \E o \in Objs, code \in ExecCodes, tmo \in Timeouts :
          execute(o, code, 1, FALSE, tmo)
    \/ \E c \in DOMAIN conts : ContainerUp(c)
    \/ \E o \in Objs : CommandHangs(o)
    \/ Tick
    \/ CallStep

\* the event loop resumes a coroutine whose awaited subprocess, sleep or
\* thread has finished or whose wait_for has run out, and time goes on
SpecWait == InitExec /\ [][NextWait]_vars /\ WF_vars(CallStep) /\ WF_vars(Tick)

\* two session ids on the default port, as the tool layer creates them
\* (port=None), with containers that may exit on their own
InitOwn ==
    /\ max_sessions = MaxCap
    /\ session_timeout = MaxTimeout
    /\ now = 0
    /\ registry = [id \in Ids |-> None]
    /\ sess = <<>>
    /\ conts = <<>>
    /\ call = <<>>
    /\ result = NoResult
    /\ mret = NoRet
    /\ lastRet = [id \in Ids |-> None]
    /\ nexec = 0
    /\ faults = FALSE
    /\ running = FALSE
    /\ task = <<>>
    /\ stopping = 0

NextOwn ==
    \/ \E id \in Ids : get_or_create_session(id, DefaultPort)
    \/ \E id \in Ids : close_session(id)
    \/ \E o \in Objs : InitCheck(o)
    \/ \E o \in Objs : InitLaunch(o)
    \/ \E o \in Objs : InitSleep(o)
    \/ \E c \in DOMAIN conts : ContainerUp(c)
    \/ \E c \in DOMAIN conts : ContainerDie(c)
    \/ Tick

SpecOwn == InitOwn /\ [][NextOwn]_vars

\* ------------------------------------------- start, stop, _cleanup_loop
\* faulty variant: start without the test of _running
start_again ==
    /\ running' = TRUE
    /\ task' = Append(task, "sleeping")
    /\ UNCHANGED <<stopping, faults, max_sessions, session_timeout, now, registry,
                   sess, conts, call, result, mret, lastRet, nexec>>

\* start (lines 43-50): nothing when running, else the loop task is created
start ==
    /\ IF running
       THEN UNCHANGED <<running, task>>
       ELSE /\ running' = TRUE
            /\ task' = Append(task, "sleeping")
    /\ UNCHANGED <<stopping, faults, max_sessions, session_timeout, now, registry,
                   sess, conts, call, result, mret, lastRet, nexec>>

\* stop up to its suspension (lines 52-64): nothing when not running, else
\* _running is cleared, the task is cancelled and awaited
StopBegin ==
    /\ stopping = 0
    /\ IF running
       THEN /\ running' = FALSE
            /\ task' = [task EXCEPT ![Len(task)] = "cancelled"]
            /\ stopping' = 1 + Len(sess)
       ELSE UNCHANGED <<running, task, stopping>>
    /\ UNCHANGED <<faults, max_sessions, session_timeout, now, registry,
                   sess, conts, call, result, mret, lastRet, nexec>>

\* _cleanup_loop (lines 210-215): a cancelled task, suspended in
\* asyncio.sleep or not yet run, takes the CancelledError and ends
LoopCancelled ==
    /\ \E i \in DOMAIN task :
         /\ task[i] = "cancelled"
         /\ task' = SubSeq(task, 1, i - 1) \o SubSeq(task, i + 1, Len(task))
    /\ UNCHANGED <<running, stopping, faults, max_sessions, session_timeout, now,
                   registry, sess, conts, call, result, mret, lastRet, nexec>>

\* stop after the await (lines 62-69), the awaited task having ended:
\* cleanup_all_sessions (lines 152-158) closes every registered session,
\* without suspending
StopReturn ==
    /\ stopping > 0
    /\ \A i \in DOMAIN task : task[i] # "cancelled"
    /\ stopping' = 0
    /\ LET closing == RegisteredObjs
       IN \E stopOk \in [closing -> BOOLEAN], cleanOk \in [closing -> CleanOutcomes] :
            /\ sess' = CloseSess(sess, closing, cleanOk)
            /\ conts' = CloseConts(sess, conts, closing, stopOk)
    /\ registry' = [i \in Ids |-> None]
    /\ lastRet' = [i \in Ids |-> None]
    /\ mret' = Ret("stop", "none", None, "ok")
    /\ UNCHANGED <<running, task, faults, max_sessions, session_timeout, now,
                   call, result, nexec>>

\* _cleanup_loop (lines 205-219): asyncio.sleep(cleanup_interval) returns
\* in a task that was not cancelled and, the manager still running, the
\* sweep runs
LoopWake ==
    /\ \E i \in DOMAIN task : task[i] = "sleeping"
    /\ running
    /\ cleanup_expired_sessions

\* _cleanup_loop: the sweep raises; the error is logged (lines 216-217) and
\* the loop goes back to sleep
LoopError ==
    /\ \E i \in DOMAIN task : task[i] = "sleeping"
    /\ running
    /\ mret' = Ret("sweep", "none", None, "error")
    /\ UNCHANGED <<life, faults, max_sessions, session_timeout, now,
                   registry, lastRet, sess, conts, call, result, nexec>>

\* the manager with its lifecycle: one session id, created by overlapping
\* callers while the manager is started and stopped
LifeIds == {"s1"}

InitLife ==
    /\ max_sessions \in 1..MaxCap
    /\ session_timeout \in 0..MaxTimeout
    /\ now = 0
    /\ registry = [id \in Ids |-> None]
    /\ sess = <<>>
    /\ conts = <<>>
    /\ call = <<>>
    /\ result = NoResult
    /\ mret = NoRet
    /\ lastRet = [id \in Ids |-> None]
    /\ nexec = 0
    /\ faults = FALSE
    /\ running = FALSE
    /\ task = <<>>
    /\ stopping = 0

NextLife ==
    \/ start
    \/ StopBegin
    \/ StopReturn
    \/ LoopWake
    \/ LoopError
    \/ LoopCancelled
    \/ \E id \in LifeIds, port \in Ports : get_or_create_session(id, port)
    \/ \E id \in LifeIds : get_session(id)
    \/ \E id \in LifeIds : close_session(id)
    \/ \E o \in Objs : InitCheck(o)
    \/ \E o \in Objs : InitLaunch(o)
    \/ \E o \in Objs : InitSleep(o)
    \/ \E c \in DOMAIN conts : ContainerUp(c)
    \/ Tick

\* the event loop runs the sweep of a sleeping loop task in the end
SpecLife == InitLife /\ [][NextLife]_vars /\ WF_vars(LoopWake)

\* ================================================================ claims
\* the idle test, written out from the claim's words
Idle(o) == now - sess[o].last_used > session_timeout

\* C1: the registry never holds more than max_sessions entries.
\* Refuted: the capacity check (line 97) and the registration (line 112)
\* are separated by the suspension in initialize().
C1_RegistryWithinCapacity == Cardinality(Registered) <= max_sessions

\* C2: at most one live session per id: every initialized session is the
\* one registered under its id, so overlapping get_or_create_session calls
\* for one id leave no second session running outside the registry.
\* Refuted: both calls construct and initialize a session, the later
\* registration overwrites the earlier.
C2_OneLiveSessionPerId ==
    \A o \in Objs : sess[o].initialized => registry[sess[o].session_id] = o

\* C3: between two closes of id (close_session or an eviction), every
\* get_or_create_session(id) that returns gives back the object the previous
\* one returned; a call that starts on a registered id constructs and
\* provisions nothing and does not decrease last_used.
\* Refuted: two creations of id that overlap in initialize() both return,
\* each its own object, and every later call returns the second.
C3_SecondCallSameInstance ==
    [][\A id \in Ids :
         lastRet[id] # None =>
            /\ lastRet'[id] \in {lastRet[id], None}
            /\ \A port \in Ports :
                  get_or_create_session(id, port) =>
                     LET o == lastRet[id]
                     IN /\ mret' = Ret("get_or_create", id, o, "hit")
                        /\ registry' = registry
                        /\ conts' = conts
                        /\ call' = call
                        /\ Len(sess') = Len(sess)
                        /\ sess'[o].last_used >= sess[o].last_used]_vars

\* C4: one run of the eviction sweep removes and closes exactly the
\* registered sessions with now - last_used > session_timeout; every other
\* registered session stays registered and unmodified.
C4_SweepClosesExactlyExpired ==
    [][cleanup_expired_sessions =>
         \A id \in Registered :
            LET o == registry[id]
            IN IF Idle(o)
               THEN /\ registry'[id] = None
                    /\ sess'[o].closed
                    /\ ~sess'[o].initialized
                    /\ sess'[o].container = None
               ELSE /\ registry'[id] = o
                    /\ sess'[o] = sess[o]]_vars

C4_Witness ==
    /\ mret.op = "sweep"
    /\ mret.out = "some"
    /\ \E id \in Registered : ~Idle(registry[id])
    /\ \E o \in Objs : sess[o].closed /\ sess[o].handed

\* C5: execute(code) with code longer than the size threshold is rejected
\* with an error naming the size limit and a logged violation, and no
\* sandbox exec call is made during the call, neither while it runs nor
\* by the time it has returned.
\* Refuted: the session class the manager constructs has no size check; the
\* payload goes through the notebook read, write and the strategies.
C5_OversizeRejected ==
    /\ \A o \in Objs : call[o].codeLen > CodeSizeLimit => call[o].execs = 0
    /\ (result.op = "execute" /\ result.codeLen > CodeSizeLimit
            /\ result.status = "success") =>
          /\ result.sizeError
          /\ result.violation
          /\ result.execs = 0

\* C6: Closed is terminal: a session on which close() has run is never
\* initializing, initialized or attached to a sandbox again.
\* Refuted: execute() on a closed session runs initialize() again.
C6_ClosedIsTerminal ==
    \A o \in Objs :
        sess[o].closed =>
            /\ ~sess[o].initialized
            /\ sess[o].container = None
            /\ call[o].pc \notin {"check", "launch", "sleep"}

\* C7: every execute() call returns a result whose status is "success" or
\* "error"; it never raises.
\* Refuted: initialize() and _find_container() are called outside the try.
C7_ExecuteNeverRaises ==
    result.op = "execute" => result.status \in {"success", "error"}

\* C8: when every strategy was tried and the final one timed out, the
\* result carries timeout: true.
\* Refuted: the loop falls through to the final return, status "success".
C8_FinalTimeoutSurfaced ==
    (result.op = "execute" /\ result.tried = NumStrategies
        /\ result.lastOut = "timeout") => result.timeout

\* C9: close_session(id) returns whether id was registered, leaves id
\* unregistered, and on an absent id changes nothing; an id becomes
\* registered again only by a creation, so of repeated calls only the first
\* returns true.
C9_CloseSessionIdempotent ==
    [][\A id \in Ids :
         /\ close_session(id) =>
              /\ mret' = Ret("close_session", id, registry[id],
                             IF registry[id] # None THEN "true" ELSE "false")
              /\ registry'[id] = None
              /\ registry[id] = None =>
                    /\ registry' = registry
                    /\ sess' = sess
                    /\ conts' = conts
                    /\ call' = call
         /\ (registry[id] = None /\ registry'[id] # None) =>
              mret' = Ret("get_or_create", id, registry'[id], "created")]_vars

C9_Witness ==
    /\ mret.op = "close_session"
    /\ mret.out = "false"
    /\ \E o \in Objs : /\ sess[o].session_id = mret.id
                       /\ sess[o].handed
                       /\ sess[o].closed

\* C10: get_or_create_session(new id) on a registry holding max_sessions
\* entries runs the sweep first; still full, it is refused with the
\* capacity error, nothing is constructed and nothing changes; with a slot
\* free (by that sweep or before) a session is constructed and initialize()
\* is started.
C10_CapacityRefusal ==
    [][\A id \in Ids, port \in Ports :
         (registry[id] = None /\ get_or_create_session(id, port)) =>
            LET n == Cardinality(Registered)
                exp == {i \in Registered : Idle(registry[i])}
                new == Len(sess) + 1
                admitted == /\ Len(sess') = new
                            /\ sess'[new].session_id = id
                            /\ ~sess'[new].initialized
                            /\ call'[new].pc = "check"
                            /\ mret' = mret
            IN /\ (n = max_sessions /\ exp = {}) =>
                    /\ mret' = Ret("get_or_create", id, None, "capacity")
                    /\ registry' = registry
                    /\ sess' = sess
                    /\ conts' = conts
                    /\ call' = call
               /\ (n = max_sessions /\ exp # {}) =>
                    /\ \A i \in exp : registry'[i] = None /\ sess'[registry[i]].closed
                    /\ \A i \in Ids \ exp : registry'[i] = registry[i]
                    /\ admitted
               /\ n < max_sessions =>
                    /\ registry' = registry
                    /\ admitted]_vars

C10_Witness ==
    /\ mret = Ret("get_or_create", mret.id, None, "capacity")
    /\ mret.id \in Ids
    /\ registry[mret.id] = None
    /\ Cardinality(Registered) = max_sessions

\* a running container bound to the port of session o
Locatable(o) ==
    \E c \in DOMAIN conts : conts[c].status = "running" /\ conts[c].port = sess[o].port

\* C11: when stop() returns, every session has been closed and removed:
\* the registry is empty and no session object built before stop() began is
\* left unclosed, that of a creation suspended in initialize() included.
\* Refuted: cleanup_all_sessions closes the registered sessions only; the
\* suspended creation goes on, launches its sandbox and registers.
C11_StopClosesEverything ==
    [][(stopping > 0 /\ stopping' = 0) =>
          /\ registry' = [i \in Ids |-> None]
          /\ \A o \in 1..(stopping - 1) : sess'[o].closed]_vars

\* C12: close() never raises and always leaves the session Closed, whatever
\* fails among stopping or killing the container and deleting the
\* workspace; so close_session(id) on a registered id completes, returns
\* true and leaves id absent.
C12_CloseAlwaysCloses ==
    [][  /\ \A id \in Ids :
            (registry[id] # None /\ close_session(id)) =>
               LET o == registry[id]
               IN /\ mret' = Ret("close_session", id, o, "true")
                  /\ registry'[id] = None
                  /\ sess'[o].closed
         /\ \A o \in Objs :
              (sess'[o].closed /\ ~sess[o].closed) =>
                 /\ ~sess'[o].initialized
                 /\ sess'[o].container = None]_vars

C12_Witness ==
    /\ mret.op = "close_session"
    /\ mret.out = "true"
    /\ registry[mret.id] = None
    /\ sess[mret.obj].closed
    /\ sess[mret.obj].temp_dir
    /\ ~sess[mret.obj].initialized
    /\ Locatable(mret.obj)

\* C13: execute() on a session on which initialize() never ran runs
\* initialize() once, with at most one sandbox launch, and makes no sandbox
\* exec call before that launch; unless initialize() fails, exactly one
\* launch has happened when the call returns.
C13_ExecuteInitializesOnce ==
    /\ \A o \in Objs :
          call[o].fresh =>
             /\ call[o].launched <= 1
             /\ call[o].execs > 0 => call[o].launched = 1
    /\ (result.op = "execute" /\ result.fresh) =>
          /\ result.launched <= 1
          /\ result.execs > 0 => result.launched = 1
          /\ result.status # "raised" => result.launched = 1

C13_Witness ==
    /\ result.op = "execute"
    /\ result.fresh
    /\ result.launched = 1
    /\ result.execs > 0
    /\ result.status = "success"

C15_RelocationFailureIsResult ==
    [][\A o \in Objs, code \in Codes, codeLen \in CodeLens, sensitive \in BOOLEAN,
            tmo \in Timeouts :
         (/\ sess[o].initialized
          /\ sess[o].container = None
          /\ ~Locatable(o)
          /\ execute(o, code, codeLen, sensitive, tmo)) =>
            /\ result'.op = "execute"
            /\ result'.status = "error"
            /\ result'.execs = 0
            /\ call'[o].pc = "idle"
            /\ sess' = sess
            /\ registry' = registry]_vars

\* C16: when initialize() fails inside get_or_create_session(id), the error
\* is raised to the caller, the session is closed, id is not in the registry
\* afterwards and the failure changes no registry entry.
\* Refuted: an overlapping creation of the same id that succeeded has
\* registered id, so id is in the registry after the failed call.
C16_FailedCreationLeavesNoEntry ==
    [][\A o \in Objs :
         (call[o].caller = "mgr" /\ call'[o].caller = "none" /\ ~sess'[o].handed) =>
            /\ mret' = Ret("get_or_create", sess[o].session_id, None,
                           "provision_failed")
            /\ sess'[o].closed
            /\ registry' = registry
            /\ registry'[sess[o].session_id] = None]_vars

\* C17: when every strategy that ran the code exited non-zero while the
\* sandbox stayed reachable, execute() returns status "error".
\* Refuted: the strategy loop ends without a success and the final return
\* gives status "success" with a note.
C17_CodeFailureIsError ==
    (result.op = "execute" /\ result.nonzero = NumStrategies) =>
        result.status = "error"

\* C18: with session_timeout = 0, when a creation of id has returned and the
\* next thing the manager does is one eviction sweep, the sweep closes the
\* session and removes id; if it was the only entry, list_sessions() is
\* empty afterwards.
C18_ZeroTimeoutSweepEvicts ==
    [][\A id \in Ids :
         (/\ session_timeout = 0
          /\ registry[id] # None
          /\ mret = Ret("get_or_create", id, registry[id], "created")
          /\ cleanup_expired_sessions) =>
            /\ registry'[id] = None
            /\ sess'[registry[id]].closed
            /\ ~sess'[registry[id]].initialized
            /\ Registered = {id} => list_sessions' = {}]_vars

C18_Witness ==
    /\ session_timeout = 0
    /\ mret = Ret("sweep", "none", None, "some")
    /\ list_sessions = {}
    /\ \E o \in Objs : sess[o].handed /\ sess[o].closed
    /\ \A o \in Objs : call[o].pc = "idle"

\* C19: while the manager is running, a registered session that is idle
\* for longer than session_timeout is in the end closed and removed from
\* the registry, unless it is used again or the manager is stopped first;
\* the sweep of a sleeping loop is assumed to run in the end.
\* Refuted: the registration of an overlapping creation of the same id
\* replaces the idle session in the registry, and nothing closes it.
C19_IdleSessionsEvicted ==
    \A id \in LifeIds : \A o \in 1..MaxObj :
        (running /\ registry[id] = o /\ Idle(o)) ~>
            \/ ~running
            \/ o \in Objs /\ registry[id] = o /\ ~Idle(o)
            \/ o \in Objs /\ registry[id] # o /\ sess[o].closed

\* C20: code holding a sensitive substring is logged as a security
\* violation and still executed: no sandbox command runs for it, and no
\* success is returned for it, without the violation logged.
\* Refuted: the session class the manager constructs has no pattern scan.
C20_SensitiveCodeLogged ==
    /\ \A o \in Objs :
          (call[o].sensitive /\ call[o].execs > 0) => call[o].violation
    /\ (result.op = "execute" /\ result.sensitive /\ result.status = "success") =>
          result.violation

\* C21: last_used of a session never decreases, whatever runs among
\* get_or_create_session, get_session, execute and the sweep, and it is
\* never earlier than created_at, which never changes.
C21_LastUsedMonotonic ==
    [][  /\ \A o \in Objs :
              /\ sess'[o].last_used >= sess[o].last_used
              /\ sess'[o].created_at = sess[o].created_at
         /\ \A o \in DOMAIN sess' :
              sess'[o].last_used >= sess'[o].created_at]_vars

C21_Witness ==
    /\ result.op = "execute"
    /\ result.status = "success"
    /\ mret.op = "get_session"
    /\ \E o \in Objs : /\ sess[o].last_used > sess[o].created_at
                       /\ registry[sess[o].session_id] = o

\* C22: when the notebook read from the sandbox cannot be parsed, execute()
\* returns a result with status "error" and runs no strategy, and the
\* session is left as it was, initialized and attached; a later execute()
\* on it can return status "success" (the witness).
C22_UnparsableLogIsError ==
    [][  /\ \A o \in Objs :
              (/\ call[o].pc = "read"
               /\ conts[call[o].cont].nb.state = "corrupt"
               /\ ExecRead(o)) =>
                 /\ result'.op = "execute"
                 /\ result'.status = "error"
                 /\ result'.tried = 0
                 /\ call'[o].pc = "idle"
                 /\ sess'[o].initialized = sess[o].initialized
                 /\ sess'[o].container = sess[o].container
                 /\ sess'[o].closed = sess[o].closed
                 /\ sess'[o].temp_dir = sess[o].temp_dir
                 /\ conts' = conts
         /\ result'.lastOut = "unparsable" =>
              /\ result'.status = "error"
              /\ result'.tried = 0]_vars

C22_Witness ==
    /\ result.op = "execute"
    /\ result.status = "success"
    /\ result.tried >= 1
    /\ nexec = 2
    /\ \E o \in Objs : /\ sess[o].unparsed
                       /\ sess[o].initialized
                       /\ sess[o].container # None
                       /\ ~sess[o].closed
                       /\ call[o].pc = "idle"

\* the cells a call finds in a notebook file: those of the file, or the
\* default notebook when there is no file
CellsRead(nb) == IF nb.state = "ok" THEN nb.cells ELSE DefaultCells

\* a payload with a newline after a last line that has none
with_newline(code) ==
    IF code = <<>> \/ code[Len(code)] = NL THEN code ELSE Append(code, NL)

\* a parsable notebook is one of the two skeletons followed by code cells
LogShape(nb) ==
    nb.state = "ok" =>
        /\ Len(nb.cells) >= 2
        /\ SubSeq(nb.cells, 1, 2) \in {CreatedCells, DefaultCells}
        /\ \A i \in 3..Len(nb.cells) : nb.cells[i] \in {new_cell(k) : k \in Codes}

C24_ExecuteReturns ==
    \A o \in 1..MaxExecObj :
        (o \in Objs /\ call[o].caller = "exec") ~>
            (o \in Objs /\ call[o].caller # "exec")

\* the loop tasks that go on sweeping
Sweeping == {i \in DOMAIN task : task[i] = "sleeping"}

\* C25: one sweep loop goes on while the manager is running and none while
\* it is stopped, whatever start() and stop() calls were made; once every
\* such call has returned no other loop task is alive; start() on a running
\* manager creates no task; stop() returns only when the task it cancelled
\* has ended.
C25_OneLoopWhileRunning ==
    [][  /\ Cardinality(Sweeping') = (IF running' THEN 1 ELSE 0)
         /\ stopping' = 0 => Len(task') = (IF running' THEN 1 ELSE 0)
         /\ (running /\ start) => task' = task
         /\ (stopping > 0 /\ stopping' = 0) =>
               \A i \in DOMAIN task : task[i] # "cancelled"]_vars

C25_Witness ==
    /\ mret.op = "stop"
    /\ stopping = 0
    /\ running
    /\ task = <<"sleeping">>
    /\ \E o \in Objs : sess[o].closed /\ sess[o].handed

\* C26: initialize() on an initialized session does nothing: no sandbox is
\* launched, no command is run, and the session, its sandbox reference, its
\* workspace, last_used and the registry are as before; so a creation by
\* get_or_create_session followed by initialize() leaves one sandbox.
C26_InitializeIdempotent ==
    [][\A o \in Objs :
         (sess[o].initialized /\ initialize(o)) =>
            /\ sess' = sess
            /\ conts' = conts
            /\ call' = call
            /\ registry' = registry
            /\ result'.op = "initialize"
            /\ result'.launched = 0
            /\ result'.execs = 0]_vars

C26_Witness ==
    /\ mret.op = "get_or_create"
    /\ mret.out = "created"
    /\ registry[mret.id] = mret.obj
    /\ result.op = "initialize"
    /\ result.status = "success"
    /\ result.launched = 0
    /\ Len(conts) = 1
    /\ sess[mret.obj].initialized
    /\ sess[mret.obj].container = 1

\* C27: within one execute() call the strategies are started in list
\* order, the first after the tool check, each next one only after the one
\* before it returned non-zero, raised or timed out, none twice; after a
\* strategy exited with code 0 no strategy is started in that call.
C27_StrategiesInOrder ==
    [][\A o \in Objs :
         /\ (call'[o].pc = "strategy" /\ call[o].pc # "strategy") =>
               /\ call[o].pc = "tools"
               /\ call[o].strat = 0
               /\ call'[o].strat = 1
         /\ (call'[o].pc = "strategy" /\ call[o].pc = "strategy"
                /\ call'[o].strat # call[o].strat) =>
               /\ call'[o].strat = call[o].strat + 1
               /\ call'[o].strat <= NumStrategies
               /\ call'[o].lastOut \in {"exitN", "exc", "timeout"}
         /\ (call[o].pc = "strategy" /\ call'[o].pc # "idle"
                /\ call'[o].lastOut = "exit0") => call'[o].pc # "strategy"
         /\ (call[o].pc = "strategy" /\ call'[o].pc = "idle"
                /\ result'.lastOut = "exit0") => result'.tried = call[o].strat]_vars

C27_Witness ==
    /\ result.op = "execute"
    /\ result.status = "success"
    /\ result.tried = 2
    /\ result.lastOut = "exit0"
    /\ result.nonzero = 1

\* C28: no two initialized sessions with different ids hold a reference to
\* the same container.
\* Refuted: the relocation pass of execute() takes any running container
\* bound to the session's port, also the one another session launched.
C28_SandboxExclusivelyOwned ==
    \A o1 \in Objs, o2 \in Objs :
        (/\ sess[o1].session_id # sess[o2].session_id
         /\ sess[o1].initialized
         /\ sess[o2].initialized
         /\ sess[o1].container # None) =>
            sess[o1].container # sess[o2].container

\* C29: every registered session is initialized and has not been closed, and
\* a session returned by get_session or get_or_create_session is one on
\* which close() has not run.
C29_RegisteredSessionsLive ==
    [][/\ \A id \in Ids :
             registry'[id] # None =>
                /\ sess'[registry'[id]].initialized
                /\ ~sess'[registry'[id]].closed
       /\ \A id \in Ids :
             ((get_session(id) \/ GocHit(id)) /\ mret'.obj # None) =>
                /\ mret'.obj = registry'[id]
                /\ ~sess'[mret'.obj].closed
       /\ (mret' # mret /\ mret'.op = "get_or_create" /\ mret'.obj # None) =>
             /\ sess'[mret'.obj].initialized
             /\ ~sess'[mret'.obj].closed]_vars

\* get_session returns the registered session of an id whose earlier session
\* was closed and removed
C29_Witness ==
    /\ mret.op = "get_session"
    /\ mret.obj # None
    /\ registry[mret.id] = mret.obj
    /\ \E o \in Objs :
          /\ o # mret.obj
          /\ sess[o].session_id = mret.id
          /\ sess[o].closed
          /\ sess[o].handed

\* the positions at which execute() is suspended in a sandbox call
SandboxCalls == {"read", "write", "tools", "strategy", "readexec", "rm"}

\* C30: an execute() that began on an open, initialized session and returns
\* after the session was closed under it returns status "error" and leaves
\* the session uninitialized and without a container.
\* Refuted: a strategy that completes after the close returns "success", and
\* so does the fallback after the remaining strategies failed.
C30_ClosedDuringExecuteIsError ==
    [][\A o \in Objs :
         (/\ call[o].pc \in SandboxCalls
          /\ call'[o].pc = "idle"
          /\ call[o].launched = 0
          /\ ~call[o].wasClosed
          /\ sess[o].closed) =>
            /\ result'.op = "execute"
            /\ result'.status = "error"
            /\ ~sess'[o].initialized
            /\ sess'[o].container = None]_vars

====
